---- MODULE Spec2Model ----
(***************************************************************************)
(* Model of blbl_up_watch: the video registry (sqlite table `videos`),     *)
(* the retrying network calls, the login flows and the traversal of        *)
(* blbl_up_watch.py, main.py and dp_bilibili_api.py.                       *)
(***************************************************************************)
EXTENDS Integers, Sequences, FiniteSets, TLC

(***************************************************************************)
(* Bounds of the model.                                                    *)
(***************************************************************************)
NumCallers == 2
MaxTasks == 2
NumVideos == 2
MaxRetry == 3
MaxPolls == 2
MaxRuns == 2

VARIABLES
    videos,        \* the rows of table `videos`, in insertion order
    table_exists,  \* whether CREATE TABLE has run on the database file
    now,           \* the database clock (CURRENT_TIMESTAMP)
    callers,       \* per caller: position in its check/fetch/insert sequence
    history,       \* completed calls of the insert, in completion order
    started,       \* number of tasks started so far
    fn,            \* the network call in progress ("none": no call)
    retry_max,     \* config "retry_max" / self.retry_max of the call
    attempt,       \* the loop variable of `for attempt in range(retry_max)`
    rpc,           \* position of the call: "idle", "loop", "request", "returned"
    responses,     \* the requests the call has sent, each with the platform's answer
    sleeps,        \* number of time.sleep(retry_interval) of the call
    notices,       \* number of retry notices logged by the call
    terminal,      \* number of terminal-failure lines logged by the call
    result,        \* the value the call returned
    impl,          \* the program that runs: "watch", "dp_main" or "main"
    spc,           \* position of the program in its login sequence
    cookie_file,   \* the persisted cookies: "absent", "corrupt" or a cookie jar
    jar,           \* the cookies of the session object in use
    restored,      \* the session was hydrated from the persisted cookies
    probes,        \* the answers of the nav probe in this run, in order
    polls,         \* the answers of the QR status endpoint for the ticket
    qr_calls,      \* number of calls of login_by_qrcode in this run
    tickets,       \* number of QR tickets obtained in this run
    qr_ret,        \* what login_by_qrcode returned: "pending", "ok", "fail"
    auth_ret,      \* what get_authenticated_session / login returned
    keys,          \* self.img_key, self.sub_key of the dp_bilibili object
    cookie_writes,   \* number of times this run wrote the persisted cookies
    discovery_calls, \* number of listing calls this run has issued
    poll_sleep,    \* the time.sleep of the latest pass of the polling loop
    account,       \* dp_bilibili: self.mid, self.name
    probe_ids,     \* per probe: the mid and uname of its answer
    earlier_polls, \* the loop has made more polls than `polls` keeps answers of
    upstream,      \* what the platform answers to the listing calls (held fixed)
    target_group_names,  \* config "target_group_name", normalised to a list
    runs,          \* number of program runs started so far
    prog,          \* the program of the current run: "watch" or "main"
    tpc,           \* position of the run in the traversal
    groups,        \* the follow groups fetched by the run
    gi,            \* index of the configured group name being processed
    ups_in_group,  \* the creators of the group being processed
    ui,            \* index of the creator being checked
    all_new_videos,  \* the new videos found so far by the run
    pass_log,      \* per run that reached its report: the report and the table
    key_fetches,   \* get_wbi_keys calls made by the traversal of the current run
    trace,         \* what the traversal of the current run did, in order
    config,        \* config.json: "retry_interval" (absent, or its value)
    sg_prev,       \* the call of the signer or of the signed listing before sg_cur
    sg_cur         \* the latest call of the signer or of the signed listing

storeVars == <<videos, table_exists, now, callers, history, started>>

retryVars == <<fn, retry_max, attempt, rpc, responses, sleeps, notices,
               terminal, result>>

sessVars == <<impl, spc, cookie_file, jar, restored, probes, polls, qr_calls,
              tickets, qr_ret, auth_ret, keys, cookie_writes, discovery_calls,
              poll_sleep, account, probe_ids, earlier_polls>>

travVars == <<upstream, target_group_names, runs, prog, tpc, groups, gi,
              ups_in_group, ui, all_new_videos, pass_log, key_fetches,
              trace>>

signVars == <<sg_prev, sg_cur>>

vars == <<storeVars, retryVars, sessVars, travVars, signVars, config>>

(***************************************************************************)
(* Values.                                                                 *)
(***************************************************************************)
None == "None"

\* a call that has not returned has no value
NoResult == <<"no result">>

Callers == 1..NumCallers

Bvids == {<<"BV", n>> : n \in 1..NumVideos}

Ups == {[mid |-> 7, uname |-> "Alice"], [mid |-> 8, uname |-> "Bob"]}

Titles == {"Q3 Report", None}

\* f"https://www.bilibili.com/video/{bvid}"
Link(bvid) == <<"https://www.bilibili.com/video/", bvid>>

\* the dict built in the traversal loop for one listed video
VideoInfo(up, bvid, title) ==
    [up_name |-> up.uname, up_mid |-> up.mid, bvid |-> bvid,
     title |-> title, link |-> Link(bvid)]

(***************************************************************************)
(* The table and its constraints.                                          *)
(***************************************************************************)
\* the column declared without PRIMARY KEY
PrimaryKeyOKNoCheck(tbl, v) == TRUE

\* PRIMARY KEY declared on up_mid in place of bvid
PrimaryKeyOnUpMid(tbl, v) == \A i \in 1..Len(tbl) : tbl[i].up_mid # v.up_mid

\* bvid TEXT PRIMARY KEY
PrimaryKeyOK(tbl, v) == \A i \in 1..Len(tbl) : tbl[i].bvid # v.bvid

\* up_name, title, link TEXT NOT NULL (up_mid is always an integer here)
NotNullOK(v) == v.up_name # None /\ v.title # None /\ v.link # None

\* the row INSERT INTO videos (bvid, up_name, up_mid, title, link) writes;
\* timestamp takes its default, CURRENT_TIMESTAMP
Row(v, t) ==
    [bvid |-> v.bvid, up_name |-> v.up_name, up_mid |-> v.up_mid,
     title |-> v.title, link |-> v.link, timestamp |-> t]

\* INSERT OR REPLACE in place of INSERT
InsertOrReplace(tbl, v, t) ==
    IF ~NotNullOK(v)
    THEN [videos |-> tbl, ret |-> FALSE]
    ELSE IF \E i \in 1..Len(tbl) : tbl[i].bvid = v.bvid
         THEN [videos |-> [i \in 1..Len(tbl) |->
                              IF tbl[i].bvid = v.bvid THEN Row(v, t) ELSE tbl[i]],
               ret |-> FALSE]
         ELSE [videos |-> Append(tbl, Row(v, t)), ret |-> TRUE]

\* save_video_if_not_exists / save_video_to_database_if_not_exists:
\* INSERT, commit, return True; IntegrityError -> return False
save_video_if_not_exists(tbl, v, t) ==
    IF PrimaryKeyOK(tbl, v) /\ NotNullOK(v)
    THEN [videos |-> Append(tbl, Row(v, t)), ret |-> TRUE]
    ELSE [videos |-> tbl, ret |-> FALSE]

\* video_exist_in_database: SELECT 1 FROM videos WHERE bvid = ? LIMIT 1
video_exist_in_database(tbl, bvid) == \E i \in 1..Len(tbl) : tbl[i].bvid = bvid

\* DROP and re-create in place of CREATE TABLE IF NOT EXISTS
CreateTableDropping(tbl) == <<>>

\* setup_database: CREATE TABLE IF NOT EXISTS videos (...)
CreateTableIfNotExists(tbl) == tbl

(***************************************************************************)
(* Callers of the store.  A "watch" caller runs the loop body of           *)
(* blbl_up_watch.py (insert, then report); a "main" caller runs the loop   *)
(* body of main.py (exists-check, detail fetch, insert, sleep).            *)
(***************************************************************************)
Idle ==
    [pc |-> "idle", style |-> "none", video_info |-> None, keys |-> {},
     detail |-> "none"]

\* the keys of the dict built in the traversal loop for one listed video
SummaryKeys == {"up_name", "up_mid", "bvid", "title", "link"}

\* the bvid as a dict key
BvidKey(bvid) == "BV" \o ToString(bvid[2])

\* the detail endpoint answers for the first video with code 0 and gives
\* no answer for the others
DetailAnswer(bvid) == IF bvid[2] = 1 THEN "ok" ELSE "failed"

\* dp_bilibili.get_video_info(bvid): {bvid: {'pubdate': .., 'title': ..,
\* 'duration': .., 'cid': ..}}, or {} after the last attempt; per key of the
\* result the keys of its value
get_video_info(bvid, r) ==
    [k \in (IF r = "ok" THEN {BvidKey(bvid)} ELSE {}) |->
        {"pubdate", "title", "duration", "cid"}]

\* the keys of a dict after dict.update(d)
update(ks, d) == ks \cup DOMAIN d

\* no database file yet
StoreInit ==
    /\ videos = <<>>
    /\ table_exists = FALSE
    /\ now = 0
    /\ callers = [c \in Callers |-> Idle]
    /\ history = <<>>
    /\ started = 0

\* no network call in progress
RetryInit ==
    /\ fn = "none"
    /\ retry_max = 0
    /\ attempt = 0
    /\ rpc = "idle"
    /\ responses = <<>>
    /\ sleeps = 0
    /\ notices = 0
    /\ terminal = 0
    /\ result = NoResult

\* no program started; the persisted cookies are whatever an earlier run or
\* the user left: none, a file that is no JSON, or cookies of an earlier login
SessInit ==
    /\ impl = "none"
    /\ spc = "start"
    /\ cookie_file \in {"absent", "corrupt", "old"}
    /\ jar = "empty"
    /\ restored = FALSE
    /\ probes = <<>>
    /\ polls = <<>>
    /\ qr_calls = 0
    /\ tickets = 0
    /\ qr_ret = "pending"
    /\ auth_ret = "pending"
    /\ keys = <<None, None>>
    /\ cookie_writes = 0
    /\ discovery_calls = 0
    /\ poll_sleep = <<>>
    /\ account = <<0, "">>
    /\ probe_ids = <<>>
    /\ earlier_polls = FALSE

\* the session component at rest, for the specifications of the other parts
SessIdle == SessInit /\ cookie_file = "absent"

\* the follow groups of the account: name -> tagid
FollowGroups == [n \in {"tech", "music"} |-> IF n = "tech" THEN 1 ELSE 2]

\* get_following_groups returned {} (request failed or code != 0)
NoGroups == [n \in {} |-> 0]

Tags == {FollowGroups[n] : n \in DOMAIN FollowGroups}

Mids == {u.mid : u \in Ups}

\* what the creator listing of a group returns: [] (no creator, or the call
\* gave up), one creator, or two creators in the platform's order
UpLists ==
    {<<>>, <<[mid |-> 7, uname |-> "Alice"]>>} \cup
    {l \in {<<u, v>> : u \in Ups, v \in Ups} : l[1] # l[2]}

\* a set of videos as a page of the listing, newest (highest number) first
RECURSIVE PageOf(_)
PageOf(S) ==
    IF S = {} THEN <<>>
    ELSE LET b == CHOOSE x \in S : \A y \in S : y[2] <= x[2]
         IN <<b>> \o PageOf(S \ {b})

\* what the video listing of a creator returns: [] (no video, no keys, code
\* != 0 or an exception) or the bvids of data.list.vlist
Pages == {PageOf(S) : S \in SUBSET Bvids}

\* the titles of the listed videos: all strings, or null for the first video
TitleMaps ==
    {[b \in Bvids |-> "Q3 Report"],
     [b \in Bvids |-> IF b[2] = 1 THEN None ELSE "Q3 Report"]}

\* the platform's answers to the listing calls
Upstreams ==
    [groups : {FollowGroups, NoGroups},
     ups_of : [Tags -> UpLists],
     page   : [Mids -> Pages],
     title_of : TitleMaps]

\* config "target_group_name" after normalisation: non-empty lists of
\* non-empty strings
TargetConfigs ==
    {<<"tech", "music">>, <<"Tech", "tech">>, <<"tech", "tech">>}

\* no run started; the configuration and the platform's answers are given
TravInit ==
    /\ upstream \in Upstreams
    /\ target_group_names \in TargetConfigs
    /\ runs = 0
    /\ prog = "none"
    /\ tpc = "idle"
    /\ groups = NoGroups
    /\ gi = 0
    /\ ups_in_group = <<>>
    /\ ui = 0
    /\ all_new_videos = <<>>
    /\ pass_log = <<>>
    /\ key_fetches = 0
    /\ trace = <<>>

\* the traversal at rest, for the specifications of the other parts
TravIdle ==
    /\ TravInit
    /\ upstream = [groups |-> NoGroups, ups_of |-> [t \in Tags |-> <<>>],
                   page |-> [m \in Mids |-> <<>>],
                   title_of |-> [b \in Bvids |-> "Q3 Report"]]
    /\ target_group_names = <<"Tech", "tech">>

\* no call of the signer yet
NoCall ==
    [op |-> "none", impl |-> "none", img |-> None, sub |-> None, t |-> 0,
     params |-> <<>>, raised |-> FALSE, value |-> <<>>, caller |-> <<>>,
     sent |-> <<>>, query |-> <<>>, mixin_key |-> <<>>]

SignInit == sg_prev = NoCall /\ sg_cur = NoCall

\* the default of config.get("retry_interval", 5)
DefaultRetryInterval == 5

\* a configured "retry_interval"
OtherRetryInterval == 2

\* config.json without "retry_interval" and with it
Configs ==
    {[retry_interval |-> <<>>], [retry_interval |-> <<OtherRetryInterval>>]}

\* config.get("retry_interval", 5)
RetryInterval(c) ==
    IF c.retry_interval = <<>> THEN DefaultRetryInterval ELSE c.retry_interval[1]

ConfInit == config \in Configs

\* the default configuration, for the specifications that do not read it
ConfIdle == config = [retry_interval |-> <<>>]

InitStore == StoreInit /\ RetryInit /\ SessIdle /\ TravIdle /\ SignInit /\ ConfIdle

\* setup_database()
SetupDatabase ==
    /\ \A c \in Callers : callers[c].pc = "idle"
    /\ started < MaxTasks
    /\ table_exists' = TRUE
    /\ videos' = CreateTableIfNotExists(videos)
    /\ UNCHANGED <<now, callers, history, started>>
    /\ UNCHANGED <<retryVars, sessVars, travVars, signVars, config>>

\* one listed video reaches the loop body
StartTask(c) ==
    /\ table_exists
    /\ callers[c].pc = "idle"
    /\ started < MaxTasks
    /\ \E style \in {"watch", "main"}, up \in Ups, bvid \in Bvids, title \in Titles :
          callers' = [callers EXCEPT ![c] =
                        [pc |-> IF style = "main" THEN "check" ELSE "insert",
                         style |-> style,
                         video_info |-> VideoInfo(up, bvid, title),
                         keys |-> SummaryKeys, detail |-> "none"]]
    /\ started' = started + 1
    /\ UNCHANGED <<videos, table_exists, now, history>>
    /\ UNCHANGED <<retryVars, sessVars, travVars, signVars, config>>

\* main.py: if not video_exist_in_database(conn, bvid)
ExistsCheck(c) ==
    /\ callers[c].pc = "check"
    /\ callers' = [callers EXCEPT ![c] =
                     IF video_exist_in_database(videos, callers[c].video_info.bvid)
                     THEN Idle
                     ELSE [@ EXCEPT !.pc = "fetch"]]
    /\ UNCHANGED <<videos, table_exists, now, history, started>>
    /\ UNCHANGED <<retryVars, sessVars, travVars, signVars, config>>

\* main.py: video_info.update(dp_blbl.get_video_info(bvid)); the result is
\* {} or {bvid: {...}}, so the five inserted fields stay as they were
FetchDetail(c) ==
    /\ callers[c].pc = "fetch"
    /\ LET bvid == callers[c].video_info.bvid
           r == DetailAnswer(bvid)
       IN callers' = [callers EXCEPT ![c] =
                        [@ EXCEPT !.pc = "insert",
                                  !.detail = r,
                                  !.keys = update(@, get_video_info(bvid, r))]]
    /\ UNCHANGED <<videos, table_exists, now, history, started>>
    /\ UNCHANGED <<retryVars, sessVars, travVars, signVars, config>>

\* the insert itself, one statement of the database, run at the database's
\* current time t: the second of the previous statement or a later one; the
\* caller then reports the video if the insert returned True (main.py sleeps
\* one second) and takes the next video
Insert(c) ==
    /\ callers[c].pc = "insert"
    /\ \E t \in {now, now + 1} :
          LET v == callers[c].video_info
              r == save_video_if_not_exists(videos, v, t)
          IN /\ videos' = r.videos
             /\ callers' = [callers EXCEPT ![c] = Idle]
             /\ history' = Append(history,
                                  [style |-> callers[c].style,
                                   bvid |-> v.bvid, wf |-> NotNullOK(v),
                                   absent |-> ~video_exist_in_database(videos, v.bvid),
                                   ret |-> r.ret, row |-> Row(v, t),
                                   detail |-> callers[c].detail,
                                   keys |-> callers[c].keys])
             /\ now' = t
    /\ UNCHANGED <<table_exists, started>>
    /\ UNCHANGED <<retryVars, sessVars, travVars, signVars, config>>

NextStore ==
    \/ SetupDatabase
    \/ \E c \in Callers : StartTask(c)
    \/ \E c \in Callers : ExistsCheck(c)
    \/ \E c \in Callers : FetchDetail(c)
    \/ \E c \in Callers : Insert(c)

SpecStore == InitStore /\ [][NextStore]_vars

(***************************************************************************)
(* Properties of the store.                                                *)
(***************************************************************************)
Calls == 1..Len(history)

\* the rows of the table with the given id
RowsOf(bvid) == SelectSeq(videos, LAMBDA r : r.bvid = bvid)

\* the column types of a VideoRecord: no null among the inserted fields
WellFormed(h) == h.wf

\* C1: a call of the insert with a record whose id is not in the store
\* returns True; every later call with a record of the same id returns False,
\* and the row stored for the id stays the one the first call wrote, its
\* timestamp included.
C1_InsertTwiceTrueThenFalse ==
    \A i \in Calls :
        (history[i].absent /\ WellFormed(history[i])) =>
            /\ history[i].ret = TRUE
            /\ \A j \in Calls :
                   (j > i /\ history[j].bvid = history[i].bvid) => history[j].ret = FALSE
            /\ RowsOf(history[i].bvid) = <<history[i].row>>

\* a second call with the same id and a different record has returned False
C1_Witness ==
    \E i, j \in Calls :
        /\ i < j
        /\ history[i].bvid = history[j].bvid
        /\ history[i].absent /\ WellFormed(history[i]) /\ WellFormed(history[j])
        /\ history[i].ret = TRUE /\ history[j].ret = FALSE
        /\ history[i].row.timestamp # history[j].row.timestamp
        /\ history[i].row.up_name # history[j].row.up_name

TrueCalls(bvid) == {i \in Calls : history[i].bvid = bvid /\ history[i].ret}

\* C2: whatever the interleaving of the callers (those of main.py run the
\* exists-check and the detail fetch before the insert), at most one call of
\* the insert per id returns True, exactly one once a call with a well-formed
\* record of that id has completed, and the table holds one row per such id.
C2_OneWinnerPerId ==
    \A b \in Bvids :
        /\ Cardinality(TrueCalls(b)) <= 1
        /\ (\E i \in Calls : history[i].bvid = b /\ WellFormed(history[i]))
              => Cardinality(TrueCalls(b)) = 1
        /\ Len(RowsOf(b)) = Cardinality(TrueCalls(b))

\* two callers of main.py both passed the exists-check for the same id before
\* either inserted; both inserted, one got True and the other False
C2_Witness ==
    \E i, j \in Calls :
        /\ i < j
        /\ history[i].bvid = history[j].bvid
        /\ history[i].style = "main" /\ history[j].style = "main"
        /\ WellFormed(history[i]) /\ WellFormed(history[j])
        /\ history[i].ret = TRUE /\ history[j].ret = FALSE
        /\ Len(RowsOf(history[i].bvid)) = 1

UniqueIds == \A i, j \in 1..Len(videos) : videos[i].bvid = videos[j].bvid => i = j

\* C3: the table never holds two rows with the same id, and every step keeps
\* all the rows it found, unchanged and in place (rows are only added).
C3_UniqueAndAppendOnly ==
    /\ []UniqueIds
    /\ [][/\ Len(videos') >= Len(videos)
           /\ \A i \in 1..Len(videos) : videos'[i] = videos[i]]_vars

\* a run has set the database up again over a table that holds rows, and a
\* duplicate insert has been refused
C3_Witness ==
    /\ Len(videos) >= 1
    /\ table_exists
    /\ \E i \in Calls : ~history[i].absent /\ history[i].ret = FALSE

DistinctIds == \A i, j \in Calls : history[i].bvid = history[j].bvid => i = j

\* C4: when the calls made on the empty store so far carry well-formed
\* records with pairwise distinct ids, every one of them returned True and the
\* table holds exactly as many rows as calls were made, in whatever order the
\* records came.
C4_DistinctIdsAllInserted ==
    (DistinctIds /\ \A i \in Calls : WellFormed(history[i])) =>
        /\ \A i \in Calls : history[i].ret = TRUE
        /\ Len(videos) = Len(history)
        /\ {videos[i].bvid : i \in 1..Len(videos)} = {history[i].bvid : i \in Calls}

\* two records with distinct ids, the larger id first, are both stored
C4_Witness ==
    /\ Len(history) >= 2
    /\ DistinctIds
    /\ \A i \in Calls : WellFormed(history[i]) /\ history[i].ret
    /\ history[1].bvid[2] > history[2].bvid[2]
    /\ history[1].row.up_mid = history[2].row.up_mid
    /\ Len(videos) = Len(history)

\* C27: a video that main.py's loop inserted after its detail call had
\* succeeded was inserted with duration and pubdate among the keys of its
\* record and among the columns of its row.
C27_InsertedRecordIsEnriched ==
    \A i \in 1..Len(history) :
        (history[i].style = "main" /\ history[i].detail = "ok" /\ history[i].ret) =>
            /\ {"duration", "pubdate"} \subseteq history[i].keys
            /\ {"duration", "pubdate"} \subseteq DOMAIN history[i].row

(***************************************************************************)
(* The network calls.  A request is answered by a transport-level error    *)
(* (timeout, connection error, HTTP status, body that is no JSON) or by a  *)
(* JSON body with a `code` and a payload: the fields the caller reads are  *)
(* all there ("d1", "d2": two different contents), the payload key is      *)
(* missing, or its entries lack a field ("malformed").                    *)
(***************************************************************************)
Payloads == {"d1", "d2", "missing", "malformed"}

Codes == {0, -352}

TransportError == [error |-> TRUE, code |-> 0, payload |-> "missing"]

Responses ==
    {TransportError} \cup
    {[error |-> FALSE, code |-> c, payload |-> p] : c \in Codes, p \in Payloads}

RetryMaxValues == 0..MaxRetry

\* the calls written as `for attempt in range(retry_max)`
RetryingCalls ==
    {"get_wbi_keys", "dp.get_wbi_keys", "get_followings_in_group",
     "dp.get_ups_in_group", "dp.get_video_info", "get_videos_in_up"}

\* the calls that send one request
SingleCalls ==
    {"get_following_groups", "dp.get_following_groups", "dp.get_up_videos"}

\* the endpoint a call's loop or single request goes to
Url(f) ==
    CASE f \in {"get_wbi_keys", "dp.get_wbi_keys", "get_videos_in_up"} -> "web-interface/nav"
      [] f \in {"get_followings_in_group", "dp.get_ups_in_group"} -> "relation/tag"
      [] f = "dp.get_video_info" -> "web-interface/view"
      [] f \in {"get_following_groups", "dp.get_following_groups"} -> "relation/tags"
      [] f = "dp.get_up_videos" -> "space/wbi/arc/search"

\* what a parsed payload is worth to the caller
Data(f, payload) == <<f, payload>>

\* [] and {}
Empty == <<>>

Ok(v) == [ok |-> TRUE, value |-> v]

Fail == [ok |-> FALSE, value |-> NoResult]

\* img_url.split("/")[-1].split(".")[0] and the same of sub_url
ImgKey(payload) == IF payload = "d1" THEN "img1" ELSE "img2"

SubKey(payload) == IF payload = "d1" THEN "sub1" ELSE "sub2"

\* the try body of get_wbi_keys: the keys are cut out of
\* data["data"]["wbi_img"]; the code field is not read
get_wbi_keys_try(r) ==
    IF r.error \/ r.payload \in {"missing", "malformed"}
    THEN Fail
    ELSE Ok(<<ImgKey(r.payload), SubKey(r.payload)>>)

\* without the test of data.get('code')
followings_try_ignoring_code(r) ==
    IF r.error
    THEN Fail
    ELSE Ok(IF r.payload = "missing" THEN Empty
            ELSE Data("get_followings_in_group", r.payload))

\* the try body of get_followings_in_group: data.get("data", []) on code 0
get_followings_in_group_try(r) ==
    IF r.error
    THEN Fail
    ELSE IF r.code = 0
         THEN Ok(IF r.payload = "missing" THEN Empty
                 ELSE Data("get_followings_in_group", r.payload))
         ELSE Fail

\* the try body of dp_bilibili.get_ups_in_group: a dict built from
\* data.get("data", {}) on code 0; an entry without mid or uname raises
get_ups_in_group_try(r) ==
    IF r.error
    THEN Fail
    ELSE IF r.code = 0
         THEN CASE r.payload = "missing" -> Ok(Empty)
                [] r.payload = "malformed" -> Fail
                [] OTHER -> Ok(Data("dp.get_ups_in_group", r.payload))
         ELSE Fail

\* the try body of dp_bilibili.get_video_info: data_json["bvid"] etc. on code 0
get_video_info_try(r) ==
    IF r.error
    THEN Fail
    ELSE IF r.code = 0 /\ r.payload \notin {"missing", "malformed"}
         THEN Ok(Data("dp.get_video_info", r.payload))
         ELSE Fail

Try(f, r) ==
    CASE f \in {"get_wbi_keys", "dp.get_wbi_keys", "get_videos_in_up"} -> get_wbi_keys_try(r)
      [] f = "get_followings_in_group" -> get_followings_in_group_try(r)
      [] f = "dp.get_ups_in_group" -> get_ups_in_group_try(r)
      [] f = "dp.get_video_info" -> get_video_info_try(r)

\* get_following_groups, both versions: one request; {} on a code other than
\* 0 and on any exception
get_following_groups_once(f, r) ==
    IF ~r.error /\ r.code = 0 /\ r.payload \notin {"missing", "malformed"}
    THEN Data(f, r.payload)
    ELSE Empty

\* the request of get_videos_in_up / dp_bilibili.get_up_videos to
\* space/wbi/arc/search: one request; empty on a code other than 0 and on any
\* exception
get_videos_once(f, r) ==
    IF ~r.error /\ r.code = 0 /\ r.payload \notin {"missing", "malformed"}
    THEN Data(f, r.payload)
    ELSE Empty

Once(f, r) ==
    IF f \in {"get_following_groups", "dp.get_following_groups"}
    THEN get_following_groups_once(f, r)
    ELSE get_videos_once(f, r)

\* what a retrying call returns when the loop runs out
Exhausted(f) ==
    IF f \in {"get_wbi_keys", "dp.get_wbi_keys"} THEN <<None, None>> ELSE Empty

\* range(retry_max + 1)
OneAttemptMore(rm) == rm + 1

\* for attempt in range(retry_max)
Attempts(rm) == rm

\* sleeping after every failure, the last included
SleepAlways(a, rm) == TRUE

\* if attempt < retry_max - 1: notice and sleep, else: terminal failure
SleepAgain(a, rm) == a < rm - 1

Sent(url, r) == [url |-> url, error |-> r.error, code |-> r.code, payload |-> r.payload]

RetryOnly == UNCHANGED <<storeVars, sessVars, travVars, signVars, config>>

\* a call is made; get_videos_in_up starts with get_wbi_keys(session)
Call ==
    /\ rpc \in {"idle", "returned"}
    /\ \E f \in RetryingCalls \cup SingleCalls, rm \in RetryMaxValues :
          /\ fn' = f
          /\ retry_max' = rm
          /\ rpc' = IF f \in RetryingCalls THEN "loop" ELSE "request"
    /\ attempt' = 0
    /\ responses' = <<>>
    /\ sleeps' = 0
    /\ notices' = 0
    /\ terminal' = 0
    /\ result' = NoResult
    /\ RetryOnly

\* one pass through the body of the for loop
Attempt ==
    /\ rpc = "loop"
    /\ attempt < Attempts(retry_max)
    /\ \E r \in Responses :
          LET o == Try(fn, r)
          IN /\ responses' = Append(responses, Sent(Url(fn), r))
             /\ IF o.ok
                THEN /\ rpc' = IF fn = "get_videos_in_up" THEN "request" ELSE "returned"
                     /\ result' = o.value
                     /\ UNCHANGED <<attempt, sleeps, notices, terminal>>
                ELSE /\ attempt' = attempt + 1
                     /\ IF SleepAgain(attempt, retry_max)
                        THEN /\ notices' = notices + 1
                             /\ sleeps' = sleeps + 1
                             /\ UNCHANGED terminal
                        ELSE /\ terminal' = terminal + 1
                             /\ UNCHANGED <<notices, sleeps>>
                     /\ UNCHANGED <<rpc, result>>
    /\ UNCHANGED <<fn, retry_max>>
    /\ RetryOnly

\* the for loop has run out: return None, None / return [] / return {}
LoopExit ==
    /\ rpc = "loop"
    /\ attempt >= Attempts(retry_max)
    /\ rpc' = "returned"
    /\ result' = Exhausted(fn)
    /\ UNCHANGED <<fn, retry_max, attempt, responses, sleeps, notices, terminal>>
    /\ RetryOnly

\* the one request of a call without a loop; in get_videos_in_up, the signed
\* request that follows the key fetch
Request ==
    /\ rpc = "request"
    /\ \E r \in Responses :
          /\ responses' = Append(responses,
                                 Sent(IF fn = "get_videos_in_up"
                                      THEN "space/wbi/arc/search" ELSE Url(fn), r))
          /\ result' = Once(fn, r)
    /\ rpc' = "returned"
    /\ UNCHANGED <<fn, retry_max, attempt, sleeps, notices, terminal>>
    /\ RetryOnly

NextRetry ==
    \/ Call
    \/ Attempt
    \/ LoopExit
    \/ Request

InitRetry == StoreInit /\ RetryInit /\ SessIdle /\ TravIdle /\ SignInit /\ ConfIdle

SpecRetry == InitRetry /\ [][NextRetry]_vars

(***************************************************************************)
(* Properties of the network calls.                                        *)
(***************************************************************************)
\* the requests of the call's loop
LoopRequests == SelectSeq(responses, LAMBDA q : q.url = Url(fn))

\* the requests the call sent to the given endpoint
RequestsTo(url) == SelectSeq(responses, LAMBDA q : q.url = url)

\* the loop of the call is over
LoopOver == rpc = "returned" \/ (fn = "get_videos_in_up" /\ rpc = "request")

\* the attempt that got this answer failed: it raised or, where the call
\* reads it, the code was not 0
AttemptFailed(q) == ~Try(fn, q).ok

AllFailed(qs) == \A i \in 1..Len(qs) : AttemptFailed(qs[i])

\* C6: a retrying call (key fetch, creator listing, video detail) never sends
\* more than retry_max requests; while fewer than retry_max attempts have all
\* failed it goes on; and once an attempt succeeds after k failures the call
\* has sent exactly k+1 requests, sends no more, and holds that attempt's value.
C6_FailsThenSucceeds ==
    fn \in RetryingCalls =>
        LET L == LoopRequests
        IN /\ Len(L) <= retry_max
           /\ (AllFailed(L) /\ Len(L) < retry_max) => rpc = "loop"
           /\ \A i \in 1..Len(L) :
                 ~AttemptFailed(L[i]) =>
                     /\ i = Len(L)
                     /\ LoopOver
                     /\ (rpc = "returned" /\ fn # "get_videos_in_up")
                           => result = Try(fn, L[i]).value

\* with retry_max = 3 the creator listing failed twice (a transport error, a
\* code other than 0), succeeded at the third request and returned its value
C6_Witness ==
    /\ fn = "dp.get_ups_in_group"
    /\ retry_max = 3
    /\ rpc = "returned"
    /\ Len(responses) = 3
    /\ responses[1].error
    /\ ~responses[2].error /\ responses[2].code # 0
    /\ ~responses[3].error /\ responses[3].code = 0 /\ responses[3].payload = "d2"
    /\ result = Data("dp.get_ups_in_group", "d2")

\* C7: when every attempt of a retrying call fails, each failure but the last
\* is followed by one retry notice and one sleep, the last by one terminal
\* failure line, and the call returns after exactly retry_max requests with
\* its empty result (a pair of None for the key fetch, [] or {} otherwise).
C7_AllAttemptsFail ==
    (fn \in RetryingCalls /\ LoopRequests # <<>> /\ AllFailed(LoopRequests)) =>
        LET n == Len(LoopRequests)
        IN /\ sleeps = (IF n < retry_max THEN n ELSE retry_max - 1)
           /\ notices = sleeps
           /\ terminal = (IF n < retry_max THEN 0 ELSE 1)
           /\ rpc \in {"loop", "returned"}
           /\ rpc = "returned" =>
                 /\ n = retry_max
                 /\ responses = LoopRequests
                 /\ result = (IF fn \in {"get_wbi_keys", "dp.get_wbi_keys"}
                              THEN <<None, None>> ELSE <<>>)

\* the key fetch has failed three times out of retry_max = 3 and returned
\* None, None after two sleeps
C7_Witness ==
    /\ fn = "get_wbi_keys"
    /\ retry_max = 3
    /\ rpc = "returned"
    /\ Len(responses) = 3
    /\ AllFailed(responses)
    /\ sleeps = 2 /\ notices = 2 /\ terminal = 1
    /\ result = <<None, None>>

\* the last answer of the call
Last == responses[Len(responses)]

\* the calls C8 names: key fetch, group listing, creator listing, video listing
C8Calls ==
    {"get_wbi_keys", "dp.get_wbi_keys", "get_following_groups",
     "dp.get_following_groups", "get_followings_in_group", "dp.get_ups_in_group",
     "get_videos_in_up", "dp.get_up_videos"}

\* C8 as stated: for key fetch, group listing, creator listing and video
\* listing, an answer whose code is not 0 is a failed attempt, so a call that
\* returns right after one has used up its retry_max attempts at that endpoint
\* and returns its empty result.
C8_CodeNonZeroRetriedEverywhere ==
    (fn \in C8Calls /\ retry_max >= 1 /\ rpc = "returned" /\ responses # <<>>
        /\ ~Last.error /\ Last.code # 0) =>
        /\ Len(RequestsTo(Last.url)) = retry_max
        /\ result \in {<<>>, <<None, None>>}

\* C8 amended: creator listing and video detail treat a code other than 0 as
\* a failed attempt like a transport error and retry it up to retry_max times
\* before returning empty; group listing and video listing send one request
\* per call and return empty at once on a code other than 0, as on a transport
\* error; the key fetch does not read the code: an answer that carries the
\* key urls ends the call with the keys, any other is a failed attempt.
C8_CodeNonZeroPerCall ==
    /\ (fn \in {"get_followings_in_group", "dp.get_ups_in_group", "dp.get_video_info"}
          /\ responses # <<>>) =>
          /\ \A i \in 1..Len(responses) :
                (responses[i].error \/ responses[i].code # 0) =>
                    AttemptFailed(responses[i])
          /\ (rpc = "returned" /\ (Last.error \/ Last.code # 0)) =>
                /\ Len(responses) = retry_max
                /\ sleeps = retry_max - 1
                /\ result = <<>>
    /\ fn \in {"get_following_groups", "dp.get_following_groups"} =>
          /\ Len(responses) <= 1
          /\ sleeps = 0 /\ notices = 0
          /\ (rpc = "returned" /\ (Last.error \/ Last.code # 0)) => result = <<>>
    /\ fn \in {"dp.get_up_videos", "get_videos_in_up"} =>
          /\ Len(RequestsTo("space/wbi/arc/search")) <= 1
          /\ (rpc = "returned" /\ RequestsTo("space/wbi/arc/search") # <<>>) =>
                /\ Last.url = "space/wbi/arc/search"
                /\ (Last.error \/ Last.code # 0) => result = <<>>
    /\ (fn \in {"get_wbi_keys", "dp.get_wbi_keys"} /\ rpc = "returned"
          /\ responses # <<>> /\ ~Last.error /\ Last.code # 0) =>
          IF Last.payload \in {"d1", "d2"}
          THEN result = <<ImgKey(Last.payload), SubKey(Last.payload)>>
          ELSE Len(responses) = retry_max /\ result = <<None, None>>

\* with retry_max = 3 the group listing got a code other than 0 and returned
\* {} after that one request
C8_Witness ==
    /\ fn = "dp.get_following_groups"
    /\ retry_max = 3
    /\ rpc = "returned"
    /\ Len(responses) = 1
    /\ ~Last.error /\ Last.code # 0
    /\ result = <<>>
    /\ sleeps = 0


(***************************************************************************)
(* Login.  "watch" is blbl_up_watch.py (get_authenticated_session and      *)
(* login_by_qrcode), "dp_main" the __main__ of dp_bilibili_api.py and      *)
(* "main" main.py, both on dp_bilibili (the constructor, login,            *)
(* test_login, login_by_qrcode).  The platform answers as it likes.        *)
(***************************************************************************)
\* what the nav probe says: isLogin true, isLogin false or absent, or the
\* request or its parsing raises
ProbeAnswers == {"true", "false", "error"}

\* what the QR status endpoint says: the request or its parsing raises, or
\* data.code is 0 (success), 86038 (expired), 86090 (scanned, not confirmed)
\* or another code (86101: not scanned yet)
PollAnswers ==
    {[error |-> TRUE, code |-> 0]} \cup
    {[error |-> FALSE, code |-> c] : c \in {0, 86038, 86090, 86101}}

\* data.get('mid'), data.get('uname') of a nav answer: absent, or a value
NoId == [mid |-> <<>>, uname |-> <<>>]

ProbeIds ==
    {NoId, [mid |-> <<7>>, uname |-> <<"ann">>], [mid |-> <<8>>, uname |-> <<"bob">>]}

\* an answer that does not say isLogin carries no account
IdsOf(a) == IF a = "true" THEN ProbeIds ELSE {NoId}

\* self.mid = data.get('mid', 0); self.name = data.get('uname', "")
Captured(id) ==
    <<IF id.mid = <<>> THEN 0 ELSE id.mid[1],
      IF id.uname = <<>> THEN "" ELSE id.uname[1]>>

\* time.sleep(3) in dp_bilibili.login_by_qrcode
dp_poll_interval == 3

\* the pause at the head of the polling loop
PollSleep(i, c) == IF i = "watch" THEN RetryInterval(c) ELSE dp_poll_interval

\* any answer that is JSON counts as logged in
ProbeAnswered(a) == a # "error"

\* response.json().get('data', {}).get('isLogin')
ProbeSaysLoggedIn(a) == a = "true"

\* blbl_up_watch.login_by_qrcode on code 0: open(COOKIE_FILE, 'w') raises
\* NameError, COOKIE_FILE being a local of get_authenticated_session; the
\* except clause of the polling loop catches it and the function returns None
watch_poll_success == "fail"

\* dp_bilibili.login_by_qrcode on code 0: return True
dp_poll_success == "ok"

SessOnly == UNCHANGED <<storeVars, retryVars, travVars, signVars, config>>

\* one of the programs is started
Start ==
    /\ impl = "none"
    /\ impl' \in {"watch", "dp_main", "main"}
    /\ spc' = "load"
    /\ UNCHANGED <<cookie_file, jar, restored, probes, polls, qr_calls, tickets,
                   qr_ret, auth_ret, keys, cookie_writes, discovery_calls>>
    /\ UNCHANGED <<poll_sleep, account, probe_ids, earlier_polls>>
    /\ SessOnly

\* watch: get_authenticated_session up to the probe; a file that does not
\* load is logged and leads to login_by_qrcode().
\* dp_main, main: the cookies are read (json.load outside any try) and
\* dp_bilibili is constructed, up to get_wbi_keys(); main.py passes a logger,
\* and `self.logger = self.logger` raises AttributeError
LoadCookies ==
    /\ spc = "load"
    /\ IF impl = "watch"
       THEN IF cookie_file \in {"absent", "corrupt"}
            THEN /\ spc' = "qr_generate"
                 /\ qr_calls' = qr_calls + 1
                 /\ UNCHANGED <<jar, restored>>
            ELSE /\ spc' = "probe"
                 /\ jar' = cookie_file
                 /\ restored' = TRUE
                 /\ UNCHANGED qr_calls
       ELSE /\ spc' = IF cookie_file = "corrupt" \/ impl = "main"
                      THEN "crashed" ELSE "ctor_keys"
            /\ IF cookie_file \in {"absent", "corrupt"}
               THEN UNCHANGED <<jar, restored>>
               ELSE jar' = cookie_file /\ restored' = TRUE
            /\ UNCHANGED qr_calls
    /\ UNCHANGED <<impl, cookie_file, probes, polls, tickets, qr_ret, auth_ret, keys,
                   cookie_writes, discovery_calls>>
    /\ UNCHANGED <<poll_sleep, account, probe_ids, earlier_polls>>
    /\ SessOnly

\* dp_bilibili.__init__: self.get_wbi_keys(), which sets the keys or gives up
CtorKeys ==
    /\ spc = "ctor_keys"
    /\ \E p \in {"d1", "none"} :
          keys' = IF p = "none" THEN <<None, None>> ELSE <<ImgKey(p), SubKey(p)>>
    /\ spc' = "probe"
    /\ UNCHANGED <<impl, cookie_file, jar, restored, probes, polls, qr_calls,
                   tickets, qr_ret, auth_ret, cookie_writes, discovery_calls>>
    /\ UNCHANGED <<poll_sleep, account, probe_ids, earlier_polls>>
    /\ SessOnly

\* watch: the nav request of get_authenticated_session; logged in -> return
\* session, else (or on an exception) return login_by_qrcode().
\* dp: login(): if not self.test_login(): ... self.login_by_qrcode()
Probe ==
    /\ spc = "probe"
    /\ \E a \in ProbeAnswers : \E id \in IdsOf(a) :
          /\ probes' = Append(probes, a)
          /\ probe_ids' = Append(probe_ids, id)
          /\ account' = IF impl # "watch" /\ ProbeSaysLoggedIn(a)
                        THEN Captured(id) ELSE account
          /\ IF ProbeSaysLoggedIn(a)
             THEN /\ auth_ret' = "ok"
                  /\ spc' = IF impl = "watch" THEN "done" ELSE "persist"
                  /\ UNCHANGED qr_calls
             ELSE /\ spc' = "qr_generate"
                  /\ qr_calls' = qr_calls + 1
                  /\ UNCHANGED auth_ret
    /\ UNCHANGED <<impl, cookie_file, jar, restored, polls, tickets, qr_ret, keys,
                   cookie_writes, discovery_calls>>
    /\ UNCHANGED <<poll_sleep, earlier_polls>>
    /\ SessOnly

\* login_by_qrcode, step 1: the ticket is requested; on an exception the
\* function returns None / False.  watch polls with a new requests.Session()
QRGenerate ==
    /\ spc = "qr_generate"
    /\ \E ok \in BOOLEAN :
          IF ok
          THEN /\ tickets' = tickets + 1
               /\ spc' = "poll"
               /\ jar' = IF impl = "watch" THEN "empty" ELSE jar
               /\ UNCHANGED <<qr_ret, auth_ret>>
          ELSE /\ qr_ret' = "fail"
               /\ IF impl = "watch"
                  THEN auth_ret' = "fail" /\ spc' = "done"
                  ELSE spc' = "probe2" /\ UNCHANGED auth_ret
               /\ UNCHANGED <<tickets, jar>>
    /\ UNCHANGED <<impl, cookie_file, restored, probes, polls, qr_calls, keys,
                   cookie_writes, discovery_calls>>
    /\ UNCHANGED <<poll_sleep, account, probe_ids, earlier_polls>>
    /\ SessOnly

\* with a return in the branch `elif code == 86090`
PollOutcomeEndingOnScanned(i, a) ==
    IF a.error THEN "fail"
    ELSE IF a.code = 0 THEN (IF i = "watch" THEN watch_poll_success ELSE dp_poll_success)
    ELSE IF a.code \in {86038, 86090} THEN "fail"
    ELSE "pending"

\* without the branch `elif code == 86038`
PollOutcomeIgnoringExpiry(i, a) ==
    IF a.error THEN "fail"
    ELSE IF a.code = 0 THEN (IF i = "watch" THEN watch_poll_success ELSE dp_poll_success)
    ELSE "pending"

\* with the request of the poll in a try of its own that goes on polling
PollOutcomeRetryingErrors(i, a) ==
    IF a.error THEN "pending"
    ELSE IF a.code = 0 THEN (IF i = "watch" THEN watch_poll_success ELSE dp_poll_success)
    ELSE IF a.code = 86038 THEN "fail"
    ELSE "pending"

\* what login_by_qrcode does with one answer of the status endpoint:
\* "ok" / "fail" when it returns, "pending" when it polls again
PollOutcome(i, a) ==
    IF a.error THEN "fail"
    ELSE IF a.code = 0 THEN (IF i = "watch" THEN watch_poll_success ELSE dp_poll_success)
    ELSE IF a.code = 86038 THEN "fail"
    ELSE "pending"

\* one pass through the polling loop: sleep, request, branch on the code
Poll ==
    /\ spc = "poll"
    /\ Len(polls) < MaxPolls
    /\ \E a \in PollAnswers :
          LET o == PollOutcome(impl, a)
          IN /\ polls' = Append(polls, a)
             /\ poll_sleep' = <<PollSleep(impl, config)>>
             /\ qr_ret' = o
             /\ jar' = IF ~a.error /\ a.code = 0 THEN "new" ELSE jar
             /\ IF o = "pending"
                THEN UNCHANGED <<spc, auth_ret>>
                ELSE IF impl = "watch"
                     THEN auth_ret' = o /\ spc' = "done"
                     ELSE spc' = "probe2" /\ UNCHANGED auth_ret
    /\ UNCHANGED <<impl, cookie_file, restored, probes, qr_calls, tickets, keys,
                   cookie_writes, discovery_calls>>
    /\ UNCHANGED <<account, probe_ids, earlier_polls>>
    /\ SessOnly

\* the passes of the polling loop after the first MaxPolls: `while True` has
\* no bound; of the answers only the latest MaxPolls are kept
PollOn ==
    /\ spc = "poll"
    /\ Len(polls) >= MaxPolls
    /\ \E a \in PollAnswers :
          LET o == PollOutcome(impl, a)
          IN /\ polls' = Append(Tail(polls), a)
             /\ poll_sleep' = <<PollSleep(impl, config)>>
             /\ qr_ret' = o
             /\ jar' = IF ~a.error /\ a.code = 0 THEN "new" ELSE jar
             /\ IF o = "pending"
                THEN UNCHANGED <<spc, auth_ret>>
                ELSE IF impl = "watch"
                     THEN auth_ret' = o /\ spc' = "done"
                     ELSE spc' = "probe2" /\ UNCHANGED auth_ret
    /\ UNCHANGED <<impl, cookie_file, restored, probes, qr_calls, tickets, keys,
                   cookie_writes, discovery_calls>>
    /\ earlier_polls' = TRUE
    /\ UNCHANGED <<account, probe_ids>>
    /\ SessOnly

\* a login that takes the word of login_by_qrcode
login_trusting_qrcode(q, a) == q = "ok" \/ a = "true"

\* login(): self.login_by_qrcode(); if not self.test_login(): return False
login_after_qrcode(q, a) == ProbeSaysLoggedIn(a)

\* dp: login(): the second test_login, after login_by_qrcode has returned
\* (its return value is not read)
Probe2 ==
    /\ spc = "probe2"
    /\ \E a \in ProbeAnswers : \E id \in IdsOf(a) :
          /\ probes' = Append(probes, a)
          /\ probe_ids' = Append(probe_ids, id)
          /\ account' = IF ProbeSaysLoggedIn(a) THEN Captured(id) ELSE account
          /\ IF login_after_qrcode(qr_ret, a)
             THEN auth_ret' = "ok" /\ spc' = "persist"
             ELSE auth_ret' = "fail" /\ spc' = "done"
    /\ UNCHANGED <<impl, cookie_file, jar, restored, polls, qr_calls, tickets,
                   qr_ret, keys, cookie_writes, discovery_calls>>
    /\ UNCHANGED <<poll_sleep, earlier_polls>>
    /\ SessOnly

\* dp_main, main: if dp_blbl.login(): json.dump(session.cookies.get_dict(), f)
Persist ==
    /\ spc = "persist"
    /\ cookie_file' = jar
    /\ cookie_writes' = cookie_writes + 1
    /\ spc' = "done"
    /\ UNCHANGED <<impl, jar, restored, probes, polls, qr_calls, tickets, qr_ret,
                   auth_ret, keys, discovery_calls>>
    /\ UNCHANGED <<poll_sleep, account, probe_ids, earlier_polls>>
    /\ SessOnly

\* what the program does with the outcome of the login.
\* watch: `if not session: exit()`, else setup_database, get_my_info and
\* get_following_groups.  dp_main, main: the value of login() decides about
\* the cookie file only; get_following_groups() is called in either case
AfterLogin ==
    /\ spc = "done"
    /\ IF impl = "watch" /\ auth_ret # "ok"
       THEN spc' = "exited" /\ UNCHANGED discovery_calls
       ELSE spc' = "discovery" /\ discovery_calls' = discovery_calls + 1
    /\ UNCHANGED <<impl, cookie_file, jar, restored, probes, polls, qr_calls,
                   tickets, qr_ret, auth_ret, keys, cookie_writes>>
    /\ UNCHANGED <<poll_sleep, account, probe_ids, earlier_polls>>
    /\ SessOnly


NextSession ==
    \/ Start
    \/ LoadCookies
    \/ CtorKeys
    \/ Probe
    \/ QRGenerate
    \/ Poll
    \/ Probe2
    \/ Persist
    \/ AfterLogin

InitSession == StoreInit /\ RetryInit /\ SessInit /\ TravIdle /\ SignInit /\ ConfInit

SpecSession == InitSession /\ [][NextSession]_vars

NextPolling ==
    \/ NextSession
    \/ PollOn

\* the login with its polling loop unbounded; the program goes on running:
\* every sleep ends and every request returns or raises
SpecPolling == InitSession /\ [][NextPolling]_vars /\ WF_vars(NextPolling)

(***************************************************************************)
(* Properties of the login.                                                *)
(***************************************************************************)
\* the answers of the status endpoint that reported the given code
Polled(code) == \E i \in 1..Len(polls) : ~polls[i].error /\ polls[i].code = code

\* the state of the Session Manager, read off the position of the program
State ==
    CASE auth_ret = "ok" -> "Authenticated"
      [] auth_ret # "ok" /\ spc = "poll" ->
            IF Polled(86090) THEN "AwaitingQRConfirmation" ELSE "AwaitingQRScan"
      [] auth_ret # "ok" /\ spc # "poll" /\ qr_ret = "fail" ->
            IF Polled(86038) THEN "QRExpired" ELSE "LoginFailed"
      [] OTHER -> "Unauthenticated"

\* C9: after a restore from the persisted cookies whose probe reported
\* isLogin false, the session is not Authenticated by the restore: it is
\* Unauthenticated until the QR flow has acted, and it is Authenticated only
\* after login_by_qrcode was called and a later probe or poll said so.
C9_FailedRestoreNotAuthenticated ==
    (restored /\ probes # <<>> /\ probes[1] = "false") =>
        /\ (tickets = 0 /\ qr_ret = "pending") => State = "Unauthenticated"
        /\ State = "Authenticated" => (qr_calls >= 1 /\ Len(probes) >= 2)

\* the persisted cookies were loaded, the probe said isLogin false, the QR
\* login went through and the session is Authenticated
C9_Witness ==
    /\ restored
    /\ probes # <<>> /\ probes[1] = "false"
    /\ Polled(0)
    /\ State = "Authenticated"

\* C10: once a poll of the QR status has reported code 0, login_by_qrcode
\* returns success (the session, respectively True), and a login that ends
\* Authenticated has persisted the cookies of the session.
C10_PollSuccessAuthenticates ==
    Polled(0) =>
        /\ qr_ret = "ok"
        /\ (spc \in {"done", "discovery"} /\ auth_ret = "ok") => cookie_file = jar


\* the login is over: the program has its answer
LoginOver == spc \in {"done", "exited", "discovery"}

\* C11: a poll that reported 86038 is the last poll of its ticket; no other
\* ticket is requested and login_by_qrcode is not called again; the function
\* has returned its failure value, and the login ends in QRExpired (in
\* dp_bilibili.login, unless the probe that follows reports logged in).
C11_ExpiredIsTerminal ==
    \A i \in 1..Len(polls) :
       (~polls[i].error /\ polls[i].code = 86038) =>
          /\ i = Len(polls)
          /\ spc # "poll"
          /\ tickets = 1
          /\ qr_calls = 1
          /\ qr_ret = "fail"
          /\ LoginOver =>
                \/ State = "QRExpired" /\ auth_ret = "fail"
                \/ impl # "watch" /\ probes[Len(probes)] = "true"
                                  /\ State = "Authenticated"

\* the code was scanned, the next poll reported 86038, and the login is over
\* in QRExpired
C11_Witness ==
    /\ Len(polls) = 2
    /\ ~polls[1].error /\ polls[1].code = 86090
    /\ ~polls[2].error /\ polls[2].code = 86038
    /\ LoginOver
    /\ State = "QRExpired"

\* C12: a poll whose request or parsing raised is the last poll of the login;
\* the function has returned its failure value (the program has not crashed),
\* and the login ends in LoginFailed (in dp_bilibili.login, unless the probe
\* that follows reports logged in).
C12_PollErrorIsTerminal ==
    \A i \in 1..Len(polls) :
       polls[i].error =>
          /\ i = Len(polls)
          /\ spc \notin {"poll", "crashed"}
          /\ tickets = 1
          /\ qr_ret = "fail"
          /\ LoginOver =>
                \/ State = "LoginFailed" /\ auth_ret = "fail"
                \/ impl # "watch" /\ probes[Len(probes)] = "true"
                                  /\ State = "Authenticated"

\* the first poll was answered, the second raised, and the login is over in
\* LoginFailed
C12_Witness ==
    /\ Len(polls) = 2
    /\ ~polls[1].error
    /\ polls[2].error
    /\ LoginOver
    /\ State = "LoginFailed"

\* C13: a run that is Authenticated and has gone on to the discovery has
\* written the persisted cookies, and they are the cookies of the session.
C13_CookiesWrittenAfterAuth ==
    (auth_ret = "ok" /\ discovery_calls >= 1) =>
        (cookie_writes >= 1 /\ cookie_file = jar)

\* C17: the key fragments are fetched only once the login has ended
\* Authenticated.
C17_KeysFetchedAfterAuth ==
    keys # <<None, None>> => auth_ret = "ok"

\* C18: a listing call is issued only by a run whose login ended
\* Authenticated; after a failed login no listing call is issued.
C18_DiscoveryOnlyAuthenticated ==
    discovery_calls >= 1 => auth_ret = "ok"

\* C26: every pause of the QR polling loop is shorter than the default retry
\* interval and is the same whatever "retry_interval" the configuration sets.
C26_PollIntervalFixedAndShort ==
    poll_sleep # <<>> =>
        /\ poll_sleep[1] < DefaultRetryInterval
        /\ poll_sleep[1] = PollSleep(impl, [retry_interval |-> <<>>])

\* the polling loop is running
InLoop == spc = "poll"

\* an answer on which the claim lets the loop end: the poll failed, or it
\* reported 0 or 86038
TerminalAnswer(a) == a.error \/ a.code \in {0, 86038}

\* the latest poll got such an answer
TerminalAnswered == polls # <<>> /\ TerminalAnswer(polls[Len(polls)])

\* the loop was entered, has polled and is left
LoopExited == polls # <<>> /\ ~InLoop

\* C31: the loop is left exactly when the latest poll failed or reported 0
\* or 86038. If at some time a poll gets such an answer, login_by_qrcode
\* leaves the loop for good; if the loop is entered and no poll ever gets
\* one, the loop is never left and polls again and again without end.
C31_LoopEndsExactlyOnTerminalAnswer ==
    /\ [](LoopExited <=> TerminalAnswered)
    /\ (<>TerminalAnswered) => <>[]LoopExited
    /\ (<>InLoop /\ []~TerminalAnswered)
          => (<>[]InLoop /\ []<><<Poll \/ PollOn>>_vars)

\* the loop went on beyond the answers kept, and was left on an expiry that
\* came after a poll answered "scanned, not confirmed"
C31_Witness ==
    /\ earlier_polls
    /\ Len(polls) = MaxPolls
    /\ polls[Len(polls) - 1] = [error |-> FALSE, code |-> 86090]
    /\ polls[Len(polls)] = [error |-> FALSE, code |-> 86038]
    /\ LoopExited

DpImpl == impl \in {"dp_main", "main"}

\* C30: dp_bilibili.login has returned True only if its latest probe said
\* isLogin, and then self.mid and self.name are those of that probe's answer
\* (0 and "" for a field the answer lacks); as long as no probe has said
\* isLogin they are the constructor's 0 and "", whatever login_by_qrcode
\* returned.
C30_LoginTrueOnlyByProbe ==
    DpImpl =>
        /\ auth_ret = "ok" =>
              /\ probes # <<>>
              /\ probes[Len(probes)] = "true"
              /\ account = Captured(probe_ids[Len(probe_ids)])
        /\ (\A i \in 1..Len(probes) : probes[i] # "true") => account = <<0, "">>

\* the first probe failed, login_by_qrcode returned True, the second probe
\* said isLogin for account 7 and login returned True
C30_Witness ==
    /\ impl = "dp_main"
    /\ Len(probes) = 2
    /\ probes[1] # "true"
    /\ qr_ret = "ok"
    /\ probes[2] = "true"
    /\ probe_ids[2].mid = <<7>>
    /\ auth_ret = "ok"
    /\ account = <<7, "ann">>

(***************************************************************************)
(* The traversal: one run of blbl_up_watch.py from the login to the        *)
(* report, against the platform's fixed answers.  A run of main.py ends    *)
(* in the constructor of dp_bilibili.                                      *)
(***************************************************************************)
\* every listed video is reported, inserted or not
ReportAlways(new, ret, video_info) == Append(new, video_info)

\* a report of the videos the insert turned down
ReportRejected(new, ret, video_info) == IF ret THEN new ELSE Append(new, video_info)

\* if save_video_if_not_exists(conn, video_info): all_new_videos.append(video_info)
Report(new, ret, video_info) == IF ret THEN Append(new, video_info) ELSE new

\* get_videos_in_up(mid, session): title, link and bvid of each listed video
videos_in_up(mid) ==
    LET p == upstream.page[mid]
    IN [i \in 1..Len(p) |->
           [title |-> upstream.title_of[p[i]], link |-> Link(p[i]), bvid |-> p[i]]]

\* the names in the order sort() puts them
UpNames == <<"Alice", "Bob">>

\* all_new_videos.sort(key=lambda v: v['up_name']); the sort is stable
RECURSIVE SortByUpName(_, _)
SortByUpName(new, k) ==
    IF k > Len(UpNames) THEN <<>>
    ELSE SelectSeq(new, LAMBDA v : v.up_name = UpNames[k]) \o SortByUpName(new, k + 1)

\* the record of a run that reached its report
PassEntry(p, new, tbl) == [prog |-> p, new |-> new, rows |-> tbl]

TravOnly ==
    UNCHANGED <<callers, history, started, retryVars, sessVars, signVars, config>>

\* blbl_up_watch.py __main__ from the login to get_following_groups: a failed
\* login exits before setup_database, a failed get_my_info after it
BeginWatch ==
    /\ tpc = "idle"
    /\ runs < MaxRuns
    /\ runs' = runs + 1
    /\ prog' = "watch"
    /\ now' = now + 1
    /\ \E outcome \in {"login failed", "no user id", "ok"} :
          /\ IF outcome = "login failed"
             THEN UNCHANGED <<videos, table_exists>>
             ELSE /\ table_exists' = TRUE
                  /\ videos' = CreateTableIfNotExists(videos)
          /\ IF outcome = "ok"
             THEN /\ groups' = upstream.groups
                  /\ tpc' = "group"
                  /\ gi' = 1
             ELSE UNCHANGED <<groups, tpc, gi>>
    /\ all_new_videos' = <<>>
    /\ key_fetches' = 0
    /\ trace' = <<>>
    /\ UNCHANGED <<upstream, target_group_names, ups_in_group, ui, pass_log>>
    /\ TravOnly

\* main.py main() up to dp_bilibili(cookies=cookies, logger=logger): the
\* constructor raises AttributeError and the run ends
BeginMain ==
    /\ tpc = "idle"
    /\ runs < MaxRuns
    /\ runs' = runs + 1
    /\ prog' = "main"
    /\ UNCHANGED <<upstream, target_group_names, tpc, groups, gi, ups_in_group,
                   ui, all_new_videos, pass_log, key_fetches, trace>>
    /\ UNCHANGED <<videos, table_exists, now>>
    /\ TravOnly

\* one entry of the trace
Event(ev, arg) == [ev |-> ev, arg |-> arg]

Lower(n) == IF n = "Tech" THEN "tech" ELSE n

\* a group of that name whatever the case of its letters
in_groups_ignoring_case(group_name, gs) ==
    \E n \in DOMAIN gs : Lower(n) = Lower(group_name)

\* group_name in groups
in_groups(group_name, gs) == group_name \in DOMAIN gs

\* the key of groups under which group_name was found
Key(group_name, gs) ==
    IF group_name \in DOMAIN gs THEN group_name
    ELSE CHOOSE n \in DOMAIN gs : Lower(n) = Lower(group_name)

\* the traversal goes on without the pause
NoPause(tr, c) == tr

\* time.sleep(config.get("retry_interval", 5))
Pause(tr, c) == Append(tr, Event("sleep", ToString(RetryInterval(c))))

\* for group_name in target_group_names: a name that is a follow group gets
\* its creators listed; an empty listing or an unknown name is logged
GroupStep ==
    /\ tpc = "group"
    /\ IF gi > Len(target_group_names)
       THEN /\ tpc' = "report"
            /\ UNCHANGED <<gi, ups_in_group, ui, trace>>
       ELSE LET group_name == target_group_names[gi]
                found == in_groups(group_name, groups)
                ups == IF found
                       THEN upstream.ups_of[groups[Key(group_name, groups)]]
                       ELSE <<>>
            IN /\ trace' = Append(trace, IF found THEN Event("group", group_name)
                                         ELSE Event("skip", group_name))
               /\ IF ups # <<>>
                  THEN /\ ups_in_group' = ups
                       /\ ui' = 1
                       /\ tpc' = "creator"
                       /\ UNCHANGED gi
                  ELSE /\ gi' = gi + 1
                       /\ UNCHANGED <<tpc, ups_in_group, ui>>
    /\ UNCHANGED <<upstream, target_group_names, runs, prog, groups,
                   all_new_videos, pass_log, key_fetches>>
    /\ UNCHANGED <<videos, table_exists, now>>
    /\ TravOnly

\* for video in videos: build video_info, save it, report it when new
RECURSIVE SaveAll(_, _, _, _, _, _)
SaveAll(tbl, new, up, vs, k, t) ==
    IF k > Len(vs) THEN [videos |-> tbl, new |-> new]
    ELSE LET video_info == VideoInfo(up, vs[k].bvid, vs[k].title)
             r == save_video_if_not_exists(tbl, video_info, t)
         IN SaveAll(r.videos, Report(new, r.ret, video_info), up, vs, k + 1, t)

\* a loop over the creators that gives up the traversal at the first creator
\* whose video listing is empty
CreatorStepEndingOnEmpty ==
    /\ tpc = "creator"
    /\ IF ui > Len(ups_in_group)
       THEN /\ gi' = gi + 1
            /\ tpc' = "group"
            /\ UNCHANGED <<ui, videos, all_new_videos, key_fetches, trace>>
       ELSE LET r == SaveAll(videos, all_new_videos, ups_in_group[ui],
                             videos_in_up(ups_in_group[ui].mid), 1, now)
            IN /\ key_fetches' = key_fetches + 1
               /\ trace' = Pause(Append(trace,
                                Event("list", ToString(ups_in_group[ui].mid))),
                                config)
               /\ videos' = r.videos
               /\ all_new_videos' = r.new
               /\ ui' = ui + 1
               /\ tpc' = IF videos_in_up(ups_in_group[ui].mid) = <<>>
                         THEN "report" ELSE tpc
               /\ UNCHANGED gi
    /\ UNCHANGED <<upstream, target_group_names, runs, prog, groups, ups_in_group,
                   pass_log>>
    /\ UNCHANGED <<table_exists, now>>
    /\ TravOnly

\* for i, up in enumerate(ups_in_group, 1): get_videos_in_up fetches the key
\* fragments and then the first video page of the creator, and the videos
\* are saved; then the pause
CreatorStep ==
    /\ tpc = "creator"
    /\ IF ui > Len(ups_in_group)
       THEN /\ gi' = gi + 1
            /\ tpc' = "group"
            /\ UNCHANGED <<ui, videos, all_new_videos, key_fetches, trace>>
       ELSE LET r == SaveAll(videos, all_new_videos, ups_in_group[ui],
                             videos_in_up(ups_in_group[ui].mid), 1, now)
            IN /\ key_fetches' = key_fetches + 1
               /\ trace' = Pause(Append(trace,
                                Event("list", ToString(ups_in_group[ui].mid))),
                                config)
               /\ videos' = r.videos
               /\ all_new_videos' = r.new
               /\ ui' = ui + 1
               /\ UNCHANGED <<gi, tpc>>
    /\ UNCHANGED <<upstream, target_group_names, runs, prog, groups, ups_in_group,
                   pass_log>>
    /\ UNCHANGED <<table_exists, now>>
    /\ TravOnly

\* conn.close(), then the summary: the new videos sorted by creator name are
\* written to the list file, or "no new video" is logged; the process ends
\* and its variables with it
ReportStep ==
    /\ tpc = "report"
    /\ pass_log' = Append(pass_log,
                      PassEntry(prog, SortByUpName(all_new_videos, 1), videos))
    /\ tpc' = "idle"
    /\ groups' = NoGroups
    /\ gi' = 0
    /\ ups_in_group' = <<>>
    /\ ui' = 0
    /\ all_new_videos' = <<>>
    /\ key_fetches' = 0
    /\ trace' = <<>>
    /\ UNCHANGED <<upstream, target_group_names, runs, prog>>
    /\ UNCHANGED <<videos, table_exists, now>>
    /\ TravOnly

NextTraverse ==
    \/ BeginWatch
    \/ BeginMain
    \/ GroupStep
    \/ CreatorStep
    \/ ReportStep

InitTraverse == StoreInit /\ RetryInit /\ SessIdle /\ TravInit /\ SignInit /\ ConfInit

SpecTraverse == InitTraverse /\ [][NextTraverse]_vars

(***************************************************************************)
(* Properties of the traversal.                                            *)
(***************************************************************************)
Passes == 1..Len(pass_log)

\* the creators the traversal visits, in order, with repetitions
RECURSIVE Visited(_)
Visited(k) ==
    IF k > Len(target_group_names) THEN <<>>
    ELSE (IF target_group_names[k] \in DOMAIN upstream.groups
          THEN upstream.ups_of[upstream.groups[target_group_names[k]]]
          ELSE <<>>) \o Visited(k + 1)

\* the positions in the visit at which the video is listed
ListedAt(b) ==
    {i \in 1..Len(Visited(1)) :
        \E j \in 1..Len(upstream.page[Visited(1)[i].mid]) :
            upstream.page[Visited(1)[i].mid][j] = b}

\* the videos listed by the upstream responses of one pass
Listed == {b \in Bvids : ListedAt(b) # {}}

\* the first creator of the visit whose page lists the video
FirstLister(b) == Visited(1)[CHOOSE i \in ListedAt(b) : \A j \in ListedAt(b) : i <= j]

\* every listed video has the fields the table requires
ListedWellFormed == \A b \in Listed : upstream.title_of[b] # None

BvidsOf(seq) == {seq[i].bvid : i \in 1..Len(seq)}

\* C5: with the upstream responses held fixed, the first full pass, which
\* starts on a table without the listed videos, ends with exactly one row per
\* listed video, carrying the name of the creator under whom the video was
\* listed (first), and reports exactly these videos; every later full pass
\* leaves the table as the pass before left it and reports no new video.
C5_SecondPassInsertsNothing ==
    \A k \in Passes :
       IF k = 1
       THEN ListedWellFormed =>
               /\ Len(pass_log[k].rows) = Cardinality(Listed)
               /\ \A b \in Listed :
                     \E i \in 1..Len(pass_log[k].rows) :
                        /\ pass_log[k].rows[i].bvid = b
                        /\ pass_log[k].rows[i].up_name = FirstLister(b).uname
               /\ BvidsOf(pass_log[k].new) = Listed
               /\ Len(pass_log[k].new) = Cardinality(Listed)
       ELSE /\ pass_log[k].new = <<>>
            /\ pass_log[k].rows = pass_log[k - 1].rows

\* two full passes: the first stored videos of Alice and of Bob, one of them
\* listed by both, and the second reported nothing
C5_Witness ==
    /\ Len(pass_log) = 2
    /\ ListedWellFormed
    /\ \E b \in Listed : Cardinality(ListedAt(b)) >= 2
    /\ \E i, j \in 1..Len(pass_log[1].rows) :
          /\ pass_log[1].rows[i].up_name = "Alice"
          /\ pass_log[1].rows[j].up_name = "Bob"
    /\ pass_log[2].new = <<>>
    /\ pass_log[2].rows = pass_log[1].rows


\* C16: within one traversal the key fragments are not fetched again once
\* the first creator has been fetched: at most one fetch per traversal.
C16_NoKeyFetchDuringTraversal ==
    key_fetches <= 1

\* the entries of the trace with one of the given kinds
Only(tr, kinds) == SelectSeq(tr, LAMBDA e : e.ev \in kinds)

\* what the loop over the configured names has to log, name by name
NameEvents ==
    [k \in 1..Len(target_group_names) |->
        IF target_group_names[k] \in DOMAIN upstream.groups
        THEN Event("group", target_group_names[k])
        ELSE Event("skip", target_group_names[k])]

\* the listing requests of the creators of the groups with the exact names
VisitEvents ==
    [i \in 1..Len(Visited(1)) |-> Event("list", ToString(Visited(1)[i].mid))]

\* the traversal of a run of blbl_up_watch.py has ended
TraversalOver == prog = "watch" /\ tpc = "report"

\* C23: when the traversal has ended, every configured name was handled in
\* order, a name that is exactly the name of a follow group by listing its
\* creators and any other name by the skip notice, and the creators fetched
\* are those of the groups with the exact names.
C23_ExactNameOrSkip ==
    TraversalOver =>
        /\ Only(trace, {"group", "skip"}) = NameEvents
        /\ Only(trace, {"list"}) = VisitEvents

\* "Tech" is configured before "tech", only "tech" is a follow group and has
\* creators: the first name was skipped and the creators of the second fetched
C23_Witness ==
    /\ TraversalOver
    /\ target_group_names = <<"Tech", "tech">>
    /\ Len(trace) >= 3
    /\ trace[1] = Event("skip", "Tech")
    /\ trace[2] = Event("group", "tech")
    /\ trace[3].ev = "list"

\* the positions of the listing requests in the trace
ListPositions == {i \in 1..Len(trace) : trace[i].ev = "list"}

C25_EmptyResultEndsThatCallOnly ==
    /\ TraversalOver =>
          /\ \A k \in 1..(Len(target_group_names) - 1) :
                (/\ target_group_names[k] \in DOMAIN upstream.groups
                 /\ upstream.ups_of[upstream.groups[target_group_names[k]]] = <<>>) =>
                   /\ Len(Only(trace, {"group", "skip"})) > k
                   /\ Only(trace, {"group", "skip"})[k + 1].arg = target_group_names[k + 1]
          /\ \A i \in 1..(Len(Visited(1)) - 1) :
                upstream.page[Visited(1)[i].mid] = <<>> =>
                   /\ Len(Only(trace, {"list"})) > i
                   /\ Only(trace, {"list"})[i + 1].arg = ToString(Visited(1)[i + 1].mid)
    /\ BvidsOf(all_new_videos) \subseteq BvidsOf(videos)

\* the first group had no creator, the first creator of the second group no
\* video, and a video of the second creator was inserted
C25_Witness ==
    /\ TraversalOver
    /\ target_group_names = <<"tech", "music">>
    /\ upstream.groups = FollowGroups
    /\ upstream.ups_of[1] = <<>>
    /\ Len(upstream.ups_of[2]) = 2
    /\ upstream.page[upstream.ups_of[2][1].mid] = <<>>
    /\ Only(trace, {"group", "skip"}) =
          <<Event("group", "tech"), Event("group", "music")>>
    /\ Len(Only(trace, {"list"})) = 2
    /\ all_new_videos # <<>>
    /\ all_new_videos[1].up_mid = upstream.ups_of[2][2].mid

\* the rows of the store when pass k began
RowsBefore(k) == IF k = 1 THEN <<>> ELSE pass_log[k - 1].rows

\* C29: the report of a pass holds exactly the ids the pass inserted (the ids
\* of the store at its end that were not there at its beginning), each once,
\* and none that was in the store before the pass.
C29_ReportedExactlyInserted ==
    \A k \in Passes :
        /\ BvidsOf(pass_log[k].new) =
              BvidsOf(pass_log[k].rows) \ BvidsOf(RowsBefore(k))
        /\ Len(pass_log[k].new) = Cardinality(BvidsOf(pass_log[k].new))
        /\ BvidsOf(pass_log[k].new) \cap BvidsOf(RowsBefore(k)) = {}

\* the same group is configured twice, so every video was listed twice in
\* the first pass, which reported videos; the second pass met them in the
\* store and reported none
C29_Witness ==
    /\ target_group_names = <<"tech", "tech">>
    /\ Len(pass_log) = 2
    /\ pass_log[1].new # <<>>
    /\ \A b \in BvidsOf(pass_log[1].new) : Cardinality(ListedAt(b)) >= 2
    /\ pass_log[2].new = <<>>
    /\ pass_log[2].rows # <<>>

(***************************************************************************)
(* The Signing Engine (get_mixin_key, sign_params) and the signed video    *)
(* listing (get_videos_in_up, dp_bilibili.get_up_videos).  A string is a   *)
(* sequence of pieces; a piece is one of the characters ! ' ( ) * or a run  *)
(* of other characters.  A dict is the sequence of its items, <<key,       *)
(* value>>, in insertion order.                                            *)
(***************************************************************************)
MIXIN_KEY_ENC_TAB ==
    <<46, 47, 18, 2, 53, 8, 23, 32, 15, 50, 10, 31, 58, 3, 45, 35, 27, 43, 5, 49,
      33, 9, 42, 19, 29, 28, 14, 39, 12, 38, 41, 13, 37, 48, 7, 16, 24, 55, 40,
      61, 26, 17, 0, 1, 60, 51, 30, 4, 22, 25, 54, 21, 56, 59, 6, 63, 57, 62, 11,
      36, 20, 34, 44, 52>>

\* the characters of a key fragment: the platform's fragments have 32
\* characters each; "short" and "long" are fragments cut out of unexpected
\* urls
KeyChars(k) ==
    CASE k = "" -> <<>>
      [] k = "short" -> [i \in 1..8 |-> "s" \o ToString(i)]
      [] k = "long" -> [i \in 1..40 |-> "l" \o ToString(i)]
      [] OTHER -> [i \in 1..32 |-> k \o ToString(i)]

\* `not img_key`
Falsy(k) == k = None \/ k = ""

Returned(v) == [raised |-> FALSE, value |-> v]

Raised == [raised |-> TRUE, value |-> <<>>]

\* the first 32 characters of orig
prefix_key(orig) ==
    IF Len(orig) < 32 THEN Raised ELSE Returned(SubSeq(orig, 1, 32))

\* reduce(lambda s, i: s + orig[i], MIXIN_KEY_ENC_TAB, '')[:32]; an index
\* beyond the end of orig raises IndexError
get_mixin_key(orig) ==
    IF \E k \in 1..Len(MIXIN_KEY_ENC_TAB) : MIXIN_KEY_ENC_TAB[k] >= Len(orig)
    THEN Raised
    ELSE Returned(SubSeq([k \in 1..Len(MIXIN_KEY_ENC_TAB) |->
                             orig[MIXIN_KEY_ENC_TAB[k] + 1]], 1, 32))

\* the table of dp_bilibili.get_mixin_key
dp_MIXIN_KEY_ENC_TAB ==
    <<46, 47, 18, 2, 53, 8, 23, 32, 15, 50, 10, 31, 58, 3, 45, 35, 27, 43, 5, 49,
      33, 9, 42, 19, 29, 28, 14, 39, 12, 38, 41, 13, 37, 48, 7, 16, 24, 55, 40,
      61, 26, 17, 0, 1, 60, 51, 30, 4, 22, 25, 54, 21, 56, 59, 6, 63, 57, 62, 11,
      36, 20, 34, 44, 52>>

\* dp_bilibili.get_mixin_key(orig)
dp_get_mixin_key(orig) ==
    IF \E k \in 1..Len(dp_MIXIN_KEY_ENC_TAB) : dp_MIXIN_KEY_ENC_TAB[k] >= Len(orig)
    THEN Raised
    ELSE Returned(SubSeq([k \in 1..Len(dp_MIXIN_KEY_ENC_TAB) |->
                             orig[dp_MIXIN_KEY_ENC_TAB[k] + 1]], 1, 32))

\* params[k] = v
SetItem(d, k, v) ==
    IF \E i \in 1..Len(d) : d[i][1] = k
    THEN [i \in 1..Len(d) |-> IF d[i][1] = k THEN <<k, v>> ELSE d[i]]
    ELSE Append(d, <<k, v>>)

HasKey(d, k) == \E i \in 1..Len(d) : d[i][1] = k

GetItem(d, k) == d[CHOOSE i \in 1..Len(d) : d[i][1] = k][2]

\* the parameter names of the model in the order of Python's string comparison
KeyOrder ==
    <<"(a)", "a", "b", "mid", "order", "platform", "pn", "ps", "w_rid", "web_location",
      "wts">>

RECURSIVE SortFrom(_, _)
SortFrom(d, k) ==
    IF k > Len(KeyOrder) THEN <<>>
    ELSE SelectSeq(d, LAMBDA it : it[1] = KeyOrder[k]) \o SortFrom(d, k + 1)

\* the items left in insertion order
insertion_order(d) == d

\* dict(sorted(params.items()))
sorted_items(d) == SortFrom(d, 1)

SpecialChars == {"!", "'", "(", ")", "*"}

\* ''.join(filter(lambda ch: ch not in "!'()*", str(v)))
filter_value(v) == SelectSeq(v, LAMBDA ch : ch \notin SpecialChars)

\* a piece left as it is
Unquoted(ch) == ch

\* quote_plus of one piece
Quote(ch) ==
    CASE ch = "!" -> "%21"
      [] ch = "'" -> "%27"
      [] ch = "(" -> "%28"
      [] ch = ")" -> "%29"
      [] ch = "*" -> "%2A"
      [] OTHER -> ch

\* the pieces of a parameter name
NameChars(k) ==
    IF k = "(a)" THEN <<"(", "a", ")">> ELSE <<k>>

\* urllib.parse.urlencode: quote_plus(k)=quote_plus(v) joined by &
RECURSIVE urlencode(_)
urlencode(d) ==
    IF d = <<>> THEN <<>>
    ELSE LET n == Len(d)
             k == NameChars(d[n][1])
             v == d[n][2]
         IN urlencode(SubSeq(d, 1, n - 1)) \o (IF n > 1 THEN <<"&">> ELSE <<>>)
               \o [i \in 1..Len(k) |-> Quote(k[i])] \o <<"=">>
               \o [i \in 1..Len(v) |-> Quote(v[i])]

\* hashlib.md5(...).hexdigest(): equal inputs give equal digests
md5(x) == <<"md5">> \o x

\* str(int(time.time()))
Digits(t) == <<ToString(t)>>

\* the signer from curr_time = int(time.time()) on, the mixing key being
\* computed: the value returned, the caller's dict after the call, the query
\* string hashed and the mixing key
sign_with_key(params, mixin_key, t) ==
    LET with_wts == SetItem(params, "wts", Digits(t))
        sorted == sorted_items(with_wts)
        params_filtered == [i \in 1..Len(sorted) |->
                               <<sorted[i][1], filter_value(sorted[i][2])>>]
        query == urlencode(params_filtered)
        w_rid == md5(query \o mixin_key)
    IN [raised |-> FALSE, value |-> SetItem(sorted, "w_rid", w_rid),
        caller |-> with_wts, query |-> query, mixin_key |-> mixin_key]

\* the signer raised before it touched params
SignRaised(params) ==
    [raised |-> TRUE, value |-> <<>>, caller |-> params, query |-> <<>>,
     mixin_key |-> <<>>]

\* blbl_up_watch.sign_params(params, img_key, sub_key) at time t.  None + None
\* raises TypeError, a concatenation shorter than 64 raises IndexError
sign_params(params, img_key, sub_key, t) ==
    LET mixin_key == IF img_key = None \/ sub_key = None THEN Raised
                     ELSE get_mixin_key(KeyChars(img_key) \o KeyChars(sub_key))
    IN IF mixin_key.raised THEN SignRaised(params)
       ELSE sign_with_key(params, mixin_key.value, t)

\* dp_bilibili.sign_params(params): {} when a fragment is missing
dp_sign_params(params, img_key, sub_key, t) ==
    IF Falsy(img_key) \/ Falsy(sub_key)
    THEN [raised |-> FALSE, value |-> <<>>, caller |-> params, query |-> <<>>,
          mixin_key |-> <<>>]
    ELSE LET mixin_key == dp_get_mixin_key(KeyChars(img_key) \o KeyChars(sub_key))
         IN IF mixin_key.raised THEN SignRaised(params)
            ELSE sign_with_key(params, mixin_key.value, t)

\* the parameters of the video listing
ListingParams(mid) ==
    << <<"mid", <<ToString(mid)>>>>, <<"ps", <<"30">>>>, <<"pn", <<"1">>>>,
       <<"order", <<"pubdate">>>>, <<"platform", <<"web">>>>,
       <<"web_location", <<"1550101">>>> >>

\* blbl_up_watch.get_videos_in_up(mid, session), get_wbi_keys having returned
\* (img_key, sub_key) and the endpoint answering r: sign_params is called
\* outside the try
get_videos_in_up(mid, img_key, sub_key, t, r) ==
    IF Falsy(img_key) \/ Falsy(sub_key)
    THEN [raised |-> FALSE, value |-> Empty, sent |-> <<>>]
    ELSE LET signed == sign_params(ListingParams(mid), img_key, sub_key, t)
         IN IF signed.raised
            THEN [raised |-> TRUE, value |-> Empty, sent |-> <<>>]
            ELSE [raised |-> FALSE, value |-> get_videos_once("get_videos_in_up", r),
                  sent |-> <<signed.value>>]

\* dp_bilibili.get_up_videos(mid) with self.img_key, self.sub_key: whatever
\* sign_params returned goes into the request
get_up_videos(mid, img_key, sub_key, t, r) ==
    LET signed == dp_sign_params(ListingParams(mid), img_key, sub_key, t)
    IN IF signed.raised
       THEN [raised |-> TRUE, value |-> Empty, sent |-> <<>>]
       ELSE [raised |-> FALSE, value |-> get_videos_once("dp.get_up_videos", r),
             sent |-> <<signed.value>>]

SignImpls == {"watch", "dp"}

\* the fragments get_wbi_keys left: none, an empty one, two short ones, the
\* platform's, or a long one
KeyPairs ==
    {<<None, None>>, <<"", "sub1">>, <<"short", "short">>, <<"img1", "sub1">>,
     <<"long", "sub1">>}

Times == 1..2

\* the mappings handed to the signer
ParamInputs ==
    { << <<"b", <<"1">>>>, <<"a", <<"2">>>> >>,
      << <<"a", <<"2">>>>, <<"b", <<"1">>>> >>,
      << <<"a", <<"1">>>>, <<"b", <<"2">>>> >>,
      << <<"a", <<"x", "!", "(", "y">>>> >>,
      << <<"(a)", <<"'", "z", "*", ")">>>> >> }

\* the answers of the listing endpoint
ListAnswers == {r \in Responses : r.payload \in {"d1", "missing"}}

SignOnly == UNCHANGED <<storeVars, retryVars, sessVars, travVars, config>>

\* the record of one call of the signer
SignRecord(i, kp, ps, t) ==
    LET o == IF i = "watch" THEN sign_params(ps, kp[1], kp[2], t)
             ELSE dp_sign_params(ps, kp[1], kp[2], t)
    IN [op |-> "sign", impl |-> i, img |-> kp[1], sub |-> kp[2], t |-> t,
        params |-> ps, raised |-> o.raised, value |-> o.value,
        caller |-> o.caller, sent |-> <<>>, query |-> o.query,
        mixin_key |-> o.mixin_key]

\* the record of one request of a creator's first video page
ListRecord(i, kp, m, t, r) ==
    LET o == IF i = "watch" THEN get_videos_in_up(m, kp[1], kp[2], t, r)
             ELSE get_up_videos(m, kp[1], kp[2], t, r)
    IN [op |-> "list", impl |-> i, img |-> kp[1], sub |-> kp[2], t |-> t,
        params |-> ListingParams(m), raised |-> o.raised, value |-> o.value,
        caller |-> <<>>, sent |-> o.sent, query |-> <<>>, mixin_key |-> <<>>]

SignCalls ==
    {SignRecord(i, kp, ps, t) :
        i \in SignImpls, kp \in KeyPairs, ps \in ParamInputs, t \in Times}

ListCalls ==
    {ListRecord(i, kp, m, t, r) :
        i \in SignImpls, kp \in KeyPairs, m \in Mids, t \in Times, r \in ListAnswers}

\* the signer is called
SignCall ==
    /\ \E c \in SignCalls : sg_cur' = c
    /\ sg_prev' = sg_cur
    /\ SignOnly

\* the first video page of a creator is requested
ListCall ==
    /\ \E c \in ListCalls : sg_cur' = c
    /\ sg_prev' = sg_cur
    /\ SignOnly

NextSign ==
    \/ SignCall
    \/ ListCall

InitSign == StoreInit /\ RetryInit /\ SessIdle /\ TravIdle /\ SignInit /\ ConfIdle

SpecSign == InitSign /\ [][NextSign]_vars

(***************************************************************************)
(* Properties of the signer and of the signed listing.                     *)
(***************************************************************************)
\* C14: every request of the video listing carries wts and w_rid, and a call
\* made without key fragments returns its empty result and sends nothing.
C14_ListingAlwaysSigned ==
    sg_cur.op = "list" =>
        /\ \A i \in 1..Len(sg_cur.sent) :
              HasKey(sg_cur.sent[i], "wts") /\ HasKey(sg_cur.sent[i], "w_rid")
        /\ (Falsy(sg_cur.img) \/ Falsy(sg_cur.sub)) =>
              (~sg_cur.raised /\ sg_cur.value = Empty /\ sg_cur.sent = <<>>)

\* C15: called without key fragments, the signer returns the empty mapping
\* and does not raise.
C15_NoKeysNoSignature ==
    (sg_cur.op = "sign" /\ (Falsy(sg_cur.img) \/ Falsy(sg_cur.sub))) =>
        (~sg_cur.raised /\ sg_cur.value = <<>>)

\* C19: the video listing returns a value whatever the platform answered and
\* whatever fragments the key fetch produced; it does not raise.
C19_ListingNeverRaises ==
    sg_cur.op = "list" => ~sg_cur.raised

ItemSet(d) == {d[i] : i \in 1..Len(d)}

\* C20: two calls of the signer with the same key fragments, the same
\* timestamp and the same set of items, in whatever insertion order, return
\* the same w_rid and the same signed items.
C20_SignatureIgnoresInsertionOrder ==
    ( /\ sg_prev.op = "sign" /\ sg_cur.op = "sign"
      /\ ~sg_prev.raised /\ ~sg_cur.raised
      /\ sg_prev.value # <<>> /\ sg_cur.value # <<>>
      /\ sg_prev.img = sg_cur.img /\ sg_prev.sub = sg_cur.sub
      /\ sg_prev.t = sg_cur.t
      /\ ItemSet(sg_prev.params) = ItemSet(sg_cur.params) ) =>
        /\ GetItem(sg_prev.value, "w_rid") = GetItem(sg_cur.value, "w_rid")
        /\ ItemSet(sg_prev.value) = ItemSet(sg_cur.value)

\* {b:1, a:2} and then {a:2, b:1} were signed with the same fragments at the
\* same time, by the two signers, and the signatures are the same
C20_Witness ==
    /\ sg_prev.op = "sign" /\ sg_cur.op = "sign"
    /\ sg_prev.impl = "watch" /\ sg_cur.impl = "dp"
    /\ sg_prev.img = "img1" /\ sg_cur.img = "img1"
    /\ sg_prev.sub = "sub1" /\ sg_cur.sub = "sub1"
    /\ sg_prev.t = sg_cur.t
    /\ sg_prev.params # sg_cur.params
    /\ ItemSet(sg_prev.params) = ItemSet(sg_cur.params)
    /\ HasKey(sg_cur.value, "w_rid")
    /\ GetItem(sg_prev.value, "w_rid") = GetItem(sg_cur.value, "w_rid")

\* C21: whatever the input mapping, no piece of the query string hashed into
\* w_rid is one of the characters ! ' ( ) *.
C21_NoSpecialCharsInQuery ==
    sg_cur.op = "sign" =>
        \A i \in 1..Len(sg_cur.query) : sg_cur.query[i] \notin SpecialChars

\* a mapping with such characters in a value was signed
C21_Witness ==
    /\ sg_cur.op = "sign"
    /\ \E i \in 1..Len(sg_cur.params) :
          \E j \in 1..Len(sg_cur.params[i][2]) :
              sg_cur.params[i][2][j] \in SpecialChars
    /\ sg_cur.query # <<>>
    /\ HasKey(sg_cur.value, "w_rid")
    /\ GetItem(sg_cur.value, "w_rid") = md5(sg_cur.query \o sg_cur.mixin_key)

\* the concatenation of the key fragments of the latest call
Orig == KeyChars(sg_cur.img) \o KeyChars(sg_cur.sub)

\* C22: the table is a permutation of 0..63 and dp_bilibili's copy is the
\* same table; for fragments of 64 characters or more in total, either
\* signer's mixing key has 32 characters and its k-th character is the
\* concatenation's character at index TAB[k], k in 0..31.
C22_MixinKeyIsTablePick ==
    /\ Len(MIXIN_KEY_ENC_TAB) = 64
    /\ {MIXIN_KEY_ENC_TAB[k] : k \in 1..64} = 0..63
    /\ dp_MIXIN_KEY_ENC_TAB = MIXIN_KEY_ENC_TAB
    /\ (/\ sg_cur.op = "sign"
        /\ ~Falsy(sg_cur.img) /\ ~Falsy(sg_cur.sub)
        /\ Len(Orig) >= 64) =>
          /\ ~sg_cur.raised
          /\ Len(sg_cur.mixin_key) = 32
          /\ \A k \in 0..31 :
                sg_cur.mixin_key[k + 1] = Orig[MIXIN_KEY_ENC_TAB[k + 1] + 1]

\* dp_bilibili's signer signed with fragments of more than 64 characters in
\* total, after the other signer had signed with the same fragments and
\* derived the same mixing key
C22_Witness ==
    /\ sg_prev.op = "sign" /\ sg_prev.impl = "watch"
    /\ sg_cur.op = "sign" /\ sg_cur.impl = "dp"
    /\ sg_prev.img = sg_cur.img /\ sg_prev.sub = sg_cur.sub
    /\ ~Falsy(sg_cur.img) /\ ~Falsy(sg_cur.sub)
    /\ Len(Orig) > 64
    /\ Len(sg_cur.mixin_key) = 32
    /\ sg_prev.mixin_key = sg_cur.mixin_key

\* C28: after a call of the signer the caller's mapping has the items it had
\* before the call, no more and no fewer, in the same order.
C28_SignerLeavesParamsAlone ==
    sg_cur.op = "sign" => sg_cur.caller = sg_cur.params

====
